---- MODULE Spec2Model ----
(***************************************************************************)
(* net/rpc codecs of go-msgpack (rpc.go): the Basic codec (goRpcCodec) and *)
(* the msgpack-rpc "Spec" codec (specRpcCodec) over one byte stream.       *)
(*                                                                         *)
(* The stream is a loopback: the bytes the codec writes are the bytes it   *)
(* reads back (wire, with read position rpos).  A peer may also put raw    *)
(* frames on the stream.  Unsigned 64-bit integers are 8-byte big-endian   *)
(* tuples, so that uint32(x) is exact.                                     *)
(***************************************************************************)
EXTENDS Integers, Sequences, FiniteSets, TLC

\* ------------------------------------------------------------------------
\* Bounds of the model
\* ------------------------------------------------------------------------
\* messages (codec writes and peer frames) put on the stream in one run
MaxMsgs == 2
\* calls of Close in one run
MaxClose == 2

\* ------------------------------------------------------------------------
\* Values of the serialization engine (Encoder/Decoder, msgpack format)
\* A value is <<tag, payload>>:
\*   <<"nil", <<>>>>            the "no value" marker
\*   <<"uint", <<b1..b8>>>>     unsigned integer, 8 bytes big-endian
\*   <<"str", <<bytes>>>>       string (raw bytes)
\*   <<"arr", <<v1..vn>>>>      array
\*   <<"map", <<k1,v1,..>>>>    map (struct), keys and values flattened
\*   <<"bad", <<>>>>            a value the encoder cannot encode (chan, func)
\* ------------------------------------------------------------------------
Nil == <<"nil", <<>>>>
Bad == <<"bad", <<>>>>
Zero8 == <<0, 0, 0, 0, 0, 0, 0, 0>>
U(bs) == <<"uint", bs>>
Str(s) == <<"str", s>>
Arr(items) == <<"arr", items>>
Map(items) == <<"map", items>>
\* a small number n < 256 as a uint64
Small(n) == <<0, 0, 0, 0, 0, 0, 0, n>>

Tag(v) == v[1]
Payload(v) == v[2]

\* mutant: no truncation
uint32_wide(x) == x
\* uint32(x): keep the low 32 bits (rpc.go:217)
uint32(x) == <<0, 0, 0, 0, x[5], x[6], x[7], x[8]>>

\* number of leading zero bytes of an 8-byte integer
RECURSIVE LeadingZeros(_)
LeadingZeros(bs) ==
    IF bs = <<>> \/ Head(bs) # 0 THEN 0 ELSE 1 + LeadingZeros(Tail(bs))

\* Encoder: unsigned integer in the smallest msgpack form
EncUintSig(x, sig) ==
    IF sig = 0 \/ (sig = 1 /\ x[8] < 128) THEN <<x[8]>>
    ELSE IF sig = 1 THEN <<204, x[8]>>
    ELSE IF sig = 2 THEN <<205, x[7], x[8]>>
    ELSE IF sig <= 4 THEN <<206, x[5], x[6], x[7], x[8]>>
    ELSE <<207>> \o x
EncUint(x) == EncUintSig(x, 8 - LeadingZeros(x))

\* Encoder.Encode of one value: [ok, out]; out is what reached the stream,
\* a prefix of the encoding when a nested value cannot be encoded.
EncJoin(h, t) == [ok |-> t.ok, out |-> h.out \o t.out]
EncHeader(d, r) == [ok |-> r.ok, out |-> <<d>> \o r.out]
RECURSIVE Enc(_)
RECURSIVE EncItems(_)
RECURSIVE EncRest(_, _)
EncRest(h, items) == IF ~h.ok THEN h ELSE EncJoin(h, EncItems(items))
EncItems(items) ==
    IF items = <<>> THEN [ok |-> TRUE, out |-> <<>>]
    ELSE EncRest(Enc(Head(items)), Tail(items))
Enc(v) ==
    CASE Tag(v) = "nil" -> [ok |-> TRUE, out |-> <<192>>]
      [] Tag(v) = "uint" -> [ok |-> TRUE, out |-> EncUint(Payload(v))]
      [] Tag(v) = "str" ->
            [ok |-> TRUE, out |-> <<160 + Len(Payload(v))>> \o Payload(v)]
      [] Tag(v) = "arr" ->
            EncHeader(144 + Len(Payload(v)), EncItems(Payload(v)))
      [] Tag(v) = "map" ->
            EncHeader(128 + (Len(Payload(v)) \div 2), EncItems(Payload(v)))
      [] OTHER -> [ok |-> FALSE, out |-> <<>>]

\* Decoder: parse one value of bytes bs after position pos (pos bytes are
\* consumed already): [ok, val, pos]. A truncated value consumes the rest.
PadLeft(bs) == [i \in 1..8 |-> IF i <= 8 - Len(bs) THEN 0 ELSE bs[i - (8 - Len(bs))]]
Take(bs, pos, n) == [i \in 1..n |-> bs[pos + i]]
ParseFail(p) == [ok |-> FALSE, val |-> Nil, pos |-> p]
ParseFixed(bs, pos, n, tag) ==
    IF pos + 1 + n > Len(bs) THEN ParseFail(Len(bs))
    ELSE [ok |-> TRUE,
          val |-> IF tag = "uint" THEN U(PadLeft(Take(bs, pos + 1, n)))
                  ELSE Str(Take(bs, pos + 1, n)),
          pos |-> pos + 1 + n]
ParseJoin(h, t) == [ok |-> t.ok, val |-> <<h.val>> \o t.val, pos |-> t.pos]
ParseWrap(tag, r) == [ok |-> r.ok, val |-> <<tag, r.val>>, pos |-> r.pos]
RECURSIVE Parse(_, _)
RECURSIVE ParseItems(_, _, _)
RECURSIVE ParseRest(_, _, _)
ParseRest(bs, h, n) ==
    IF ~h.ok THEN [ok |-> FALSE, val |-> <<>>, pos |-> h.pos]
    ELSE ParseJoin(h, ParseItems(bs, h.pos, n))
ParseItems(bs, pos, n) ==
    IF n = 0 THEN [ok |-> TRUE, val |-> <<>>, pos |-> pos]
    ELSE ParseRest(bs, Parse(bs, pos), n - 1)
ParseDesc(bs, pos, d) ==
    CASE d < 128 -> [ok |-> TRUE, val |-> U(Small(d)), pos |-> pos + 1]
      [] d >= 128 /\ d < 144 -> ParseWrap("map", ParseItems(bs, pos + 1, 2 * (d - 128)))
      [] d >= 144 /\ d < 160 -> ParseWrap("arr", ParseItems(bs, pos + 1, d - 144))
      [] d >= 160 /\ d < 192 -> ParseFixed(bs, pos, d - 160, "str")
      [] d = 192 -> [ok |-> TRUE, val |-> Nil, pos |-> pos + 1]
      [] d = 204 -> ParseFixed(bs, pos, 1, "uint")
      [] d = 205 -> ParseFixed(bs, pos, 2, "uint")
      [] d = 206 -> ParseFixed(bs, pos, 4, "uint")
      [] d = 207 -> ParseFixed(bs, pos, 8, "uint")
      [] OTHER -> ParseFail(pos + 1)
Parse(bs, pos) ==
    IF pos >= Len(bs) THEN ParseFail(pos) ELSE ParseDesc(bs, pos, bs[pos + 1])

\* Field names of rpc.Request / rpc.Response as the engine writes them
kServiceMethod == <<83, 101, 114, 118, 105, 99, 101, 77, 101, 116, 104, 111, 100>>
kSeq == <<83, 101, 113>>
kError == <<69, 114, 114, 111, 114>>

\* rpc.Request / rpc.Response as the caller holds them; a Request has no
\* Error field (it stays empty), the three fields are the exported ones.
ZeroHdr == [ServiceMethod |-> <<>>, Seq |-> Zero8, Error |-> <<>>]
RequestValue(r) ==
    Map(<<Str(kServiceMethod), Str(r.ServiceMethod), Str(kSeq), U(r.Seq)>>)
ResponseValue(r) ==
    Map(<<Str(kServiceMethod), Str(r.ServiceMethod), Str(kSeq), U(r.Seq),
          Str(kError), Str(r.Error)>>)

\* Decoder: store a parsed value into a target of a Go type (kind), old is
\* the target's value before: [ok, val]. A nil on the wire zeroes a target.
SetField(kind, k, v, old) ==
    IF Tag(k) # "str" THEN [ok |-> FALSE, val |-> old]
    ELSE IF Payload(k) = kServiceMethod THEN
         IF Tag(v) = "str"
         THEN [ok |-> TRUE, val |-> [old EXCEPT !.ServiceMethod = Payload(v)]]
         ELSE IF Tag(v) = "nil"
         THEN [ok |-> TRUE, val |-> [old EXCEPT !.ServiceMethod = <<>>]]
         ELSE [ok |-> FALSE, val |-> old]
    ELSE IF Payload(k) = kSeq THEN
         IF Tag(v) = "uint"
         THEN [ok |-> TRUE, val |-> [old EXCEPT !.Seq = Payload(v)]]
         ELSE IF Tag(v) = "nil"
         THEN [ok |-> TRUE, val |-> [old EXCEPT !.Seq = Zero8]]
         ELSE [ok |-> FALSE, val |-> old]
    ELSE IF Payload(k) = kError /\ kind = "response" THEN
         IF Tag(v) = "str"
         THEN [ok |-> TRUE, val |-> [old EXCEPT !.Error = Payload(v)]]
         ELSE IF Tag(v) = "nil"
         THEN [ok |-> TRUE, val |-> [old EXCEPT !.Error = <<>>]]
         ELSE [ok |-> FALSE, val |-> old]
    ELSE [ok |-> TRUE, val |-> old]
RECURSIVE SetFields(_, _, _)
RECURSIVE SetRest(_, _, _)
SetRest(kind, f, rest) == IF ~f.ok THEN f ELSE SetFields(kind, rest, f.val)
SetFields(kind, items, old) ==
    IF items = <<>> THEN [ok |-> TRUE, val |-> old]
    ELSE SetRest(kind, SetField(kind, items[1], items[2], old),
                 SubSeq(items, 3, Len(items)))

Conv(kind, v, old) ==
    CASE kind = "uint8" ->
            IF Tag(v) = "uint" /\ SubSeq(Payload(v), 1, 7) = SubSeq(Zero8, 1, 7)
            THEN [ok |-> TRUE, val |-> Payload(v)]
            ELSE IF Tag(v) = "nil" THEN [ok |-> TRUE, val |-> Zero8]
            ELSE [ok |-> FALSE, val |-> old]
      [] kind = "uint64" ->
            IF Tag(v) = "uint" THEN [ok |-> TRUE, val |-> Payload(v)]
            ELSE IF Tag(v) = "nil" THEN [ok |-> TRUE, val |-> Zero8]
            ELSE [ok |-> FALSE, val |-> old]
      [] kind = "string" ->
            IF Tag(v) = "str" THEN [ok |-> TRUE, val |-> Payload(v)]
            ELSE IF Tag(v) = "nil" THEN [ok |-> TRUE, val |-> <<>>]
            ELSE [ok |-> FALSE, val |-> old]
      [] kind = "any" -> [ok |-> TRUE, val |-> v]
      [] kind = "slice1" ->
            \* a []interface{}{body}: the first element goes to body
            IF Tag(v) = "arr"
            THEN [ok |-> TRUE,
                  val |-> IF Payload(v) = <<>> THEN old ELSE Payload(v)[1]]
            ELSE IF Tag(v) = "nil" THEN [ok |-> TRUE, val |-> old]
            ELSE [ok |-> FALSE, val |-> old]
      [] kind \in {"request", "response"} ->
            IF Tag(v) = "map" THEN SetFields(kind, Payload(v), old)
            ELSE IF Tag(v) = "nil" THEN [ok |-> TRUE, val |-> ZeroHdr]
            ELSE [ok |-> FALSE, val |-> old]

\* ------------------------------------------------------------------------
\* rpcCodec: the stream (wire, rpos, up) with its encoder and decoder.
\* c.enc / c.dec count the calls of Encoder.Encode / Decoder.Decode.
\* Errors: "nil", "io" (stream down), "eof" (no more bytes),
\* "encode", "decode", and the framing errors of parseCustomHeader.
\* ------------------------------------------------------------------------
newRPCCodec == [wire |-> <<>>, rpos |-> 0, up |-> TRUE, enc |-> 0, dec |-> 0]

\* c.enc.Encode(v): the bytes go straight to the stream
Encoded(c, e) ==
    [err |-> IF e.ok THEN "nil" ELSE "encode",
     c |-> [c EXCEPT !.enc = @ + 1, !.wire = @ \o e.out]]
enc_Encode(c, v) ==
    IF ~c.up THEN [err |-> "io", c |-> [c EXCEPT !.enc = @ + 1]]
    ELSE Encoded(c, Enc(v))

\* c.dec.Decode(target): the decoder reads from the stream, unbuffered
Stored(c, v) == [err |-> IF v.ok THEN "nil" ELSE "decode", c |-> c, val |-> v.val]
Decoded(c, p, kind, old) ==
    IF ~p.ok
    THEN [err |-> IF p.pos >= Len(c.wire) THEN "eof" ELSE "decode",
          c |-> [c EXCEPT !.dec = @ + 1, !.rpos = p.pos], val |-> old]
    ELSE Stored([c EXCEPT !.dec = @ + 1, !.rpos = p.pos], Conv(kind, p.val, old))
dec_Decode(c, kind, old) ==
    IF ~c.up THEN [err |-> "io", c |-> [c EXCEPT !.dec = @ + 1], val |-> old]
    ELSE Decoded(c, Parse(c.wire, c.rpos), kind, old)

\* c.rwc.Read(bs) with a 1-byte buffer: [n, err, b, c]. short: the stream
\* returns 0 bytes and no error (io.Reader allows it).
\* mutant: the byte read stays in the stream
rwc_Read_peek(c, short) ==
    IF ~c.up THEN [n |-> 0, err |-> "io", b |-> 0, c |-> c]
    ELSE IF c.rpos >= Len(c.wire) THEN [n |-> 0, err |-> "eof", b |-> 0, c |-> c]
    ELSE IF short THEN [n |-> 0, err |-> "nil", b |-> 0, c |-> c]
    ELSE [n |-> 1, err |-> "nil", b |-> c.wire[c.rpos + 1], c |-> c]
rwc_Read(c, short) ==
    IF ~c.up THEN [n |-> 0, err |-> "io", b |-> 0, c |-> c]
    ELSE IF c.rpos >= Len(c.wire) THEN [n |-> 0, err |-> "eof", b |-> 0, c |-> c]
    ELSE IF short THEN [n |-> 0, err |-> "nil", b |-> 0, c |-> c]
    ELSE [n |-> 1, err |-> "nil", b |-> c.wire[c.rpos + 1],
          c |-> [c EXCEPT !.rpos = @ + 1]]

\* rpcCodec.write(objs...)
RECURSIVE write(_, _)
RECURSIVE writeNext(_, _)
\* mutant: the loop goes on after a failed Encode
writeNext_continue(r, objs) == IF objs = <<>> THEN r ELSE write(r.c, objs)
writeNext(r, objs) == IF r.err # "nil" THEN r ELSE write(r.c, objs)
write(c, objs) ==
    IF objs = <<>> THEN [err |-> "nil", c |-> c]
    ELSE writeNext(enc_Encode(c, Head(objs)), Tail(objs))

\* rpcCodec.read(objs...): kinds are the targets' types, olds their values
\* before; vals are their values after.
readJoin(r, t) == [err |-> t.err, c |-> t.c, vals |-> <<r.val>> \o t.vals]
RECURSIVE read(_, _, _)
RECURSIVE readNext(_, _, _)
readNext(r, kinds, olds) ==
    IF r.err # "nil" THEN [err |-> r.err, c |-> r.c, vals |-> <<r.val>> \o olds]
    ELSE readJoin(r, read(r.c, kinds, olds))
read(c, kinds, olds) ==
    IF kinds = <<>> THEN [err |-> "nil", c |-> c, vals |-> <<>>]
    ELSE readNext(dec_Decode(c, Head(kinds), Head(olds)), Tail(kinds), Tail(olds))

\* rpcCodec.ReadResponseBody(body)
ReadResponseBody(c, body) == dec_Decode(c, "any", body)

\* goRpcCodec
\* mutant: the body is written before the envelope
goRpcCodec_WriteRequest_bodyFirst(c, r, body) == write(c, <<body, RequestValue(r)>>)
goRpcCodec_WriteRequest(c, r, body) == write(c, <<RequestValue(r), body>>)
goRpcCodec_WriteResponse(c, r, body) == write(c, <<ResponseValue(r), body>>)
goRpcCodec_ReadRequestBody(c, body) == dec_Decode(c, "any", body)
goRpcCodec_ReadResponseHeader(c, r) == dec_Decode(c, "response", r)
goRpcCodec_ReadRequestHeader(c, r) == dec_Decode(c, "request", r)

\* specRpcCodec.parseCustomHeader(expectTypeByte, msgid, methodOrError):
\* [err, c, msgid, methodOrError], the two targets after the call
fia == 148
\* the result with the targets untouched
headerUnread(e, c, msgid, methodOrError) ==
    [err |-> e, c |-> c, msgid |-> msgid, methodOrError |-> methodOrError]
\* after c.read(&b, msgid, methodOrError)
\* mutant: the discriminator is not compared
headerDecoded_noTypeCheck(r, expectTypeByte) ==
    [err |-> r.err, c |-> r.c, msgid |-> r.vals[2], methodOrError |-> r.vals[3]]
headerDecoded(r, expectTypeByte) ==
    [err |-> IF r.err # "nil" THEN r.err
             ELSE IF r.vals[1][8] # expectTypeByte THEN "unexpected byte descriptor"
             ELSE "nil",
     c |-> r.c, msgid |-> r.vals[2], methodOrError |-> r.vals[3]]
\* after c.rwc.Read(bs)
\* mutant: the marker byte is not compared
headerRead_noMarkerCheck(rd, expectTypeByte, msgid, methodOrError) ==
    IF rd.err # "nil" THEN headerUnread(rd.err, rd.c, msgid, methodOrError)
    ELSE IF rd.n # 1 THEN headerUnread("no bytes read", rd.c, msgid, methodOrError)
    ELSE headerDecoded(read(rd.c, <<"uint8", "uint64", "string">>,
                            <<Zero8, msgid, methodOrError>>),
                       expectTypeByte)
\* mutant: the header read decodes the 4th slot too
headerRead_readsBody(rd, expectTypeByte, msgid, methodOrError) ==
    IF rd.err # "nil" THEN headerUnread(rd.err, rd.c, msgid, methodOrError)
    ELSE IF rd.n # 1 THEN headerUnread("no bytes read", rd.c, msgid, methodOrError)
    ELSE IF rd.b # fia
    THEN headerUnread("unexpected array descriptor", rd.c, msgid, methodOrError)
    ELSE headerDecoded(read(rd.c, <<"uint8", "uint64", "string", "any">>,
                            <<Zero8, msgid, methodOrError, Nil>>),
                       expectTypeByte)
\* mutant: the byte count is looked at before the error
headerRead_countFirst(rd, expectTypeByte, msgid, methodOrError) ==
    IF rd.n # 1 THEN headerUnread("no bytes read", rd.c, msgid, methodOrError)
    ELSE IF rd.err # "nil" THEN headerUnread(rd.err, rd.c, msgid, methodOrError)
    ELSE IF rd.b # fia
    THEN headerUnread("unexpected array descriptor", rd.c, msgid, methodOrError)
    ELSE headerDecoded(read(rd.c, <<"uint8", "uint64", "string">>,
                            <<Zero8, msgid, methodOrError>>),
                       expectTypeByte)
headerRead(rd, expectTypeByte, msgid, methodOrError) ==
    IF rd.err # "nil" THEN headerUnread(rd.err, rd.c, msgid, methodOrError)
    ELSE IF rd.n # 1 THEN headerUnread("no bytes read", rd.c, msgid, methodOrError)
    ELSE IF rd.b # fia
    THEN headerUnread("unexpected array descriptor", rd.c, msgid, methodOrError)
    ELSE headerDecoded(read(rd.c, <<"uint8", "uint64", "string">>,
                            <<Zero8, msgid, methodOrError>>),
                       expectTypeByte)
parseCustomHeader(c, expectTypeByte, msgid, methodOrError, short) ==
    headerRead(rwc_Read(c, short), expectTypeByte, msgid, methodOrError)

\* specRpcCodec.writeCustomBody(typeByte, msgid, methodOrError, body)
\* mutant: the empty string becomes nil whatever the type byte
customMoe_anyType(typeByte, methodOrError) ==
    IF methodOrError = <<>> THEN Nil ELSE Str(methodOrError)
customMoe(typeByte, methodOrError) ==
    IF typeByte = 1 /\ methodOrError = <<>> THEN Nil ELSE Str(methodOrError)
\* mutant: || for &&
customBody_or(typeByte, moe, body) ==
    IF typeByte = 1 /\ (moe # Nil \/ body # Nil) THEN Nil ELSE body
\* mutant: the body is kept beside an error
customBody_keep(typeByte, moe, body) == body
customBody(typeByte, moe, body) ==
    IF typeByte = 1 /\ moe # Nil /\ body # Nil THEN Nil ELSE body
customEnvelope(typeByte, msgid, moe, body) ==
    Arr(<<U(Small(typeByte)), U(uint32(msgid)), moe, customBody(typeByte, moe, body)>>)
writeCustomBody(c, typeByte, msgid, methodOrError, body) ==
    enc_Encode(c, customEnvelope(typeByte, msgid, customMoe(typeByte, methodOrError), body))

\* mutant: the request body is not wrapped
specRpcCodec_WriteRequest_unwrapped(c, r, body) ==
    writeCustomBody(c, 0, r.Seq, r.ServiceMethod, body)
specRpcCodec_WriteRequest(c, r, body) ==
    writeCustomBody(c, 0, r.Seq, r.ServiceMethod, Arr(<<body>>))
specRpcCodec_WriteResponse(c, r, body) ==
    writeCustomBody(c, 1, r.Seq, r.Error, body)
\* mutant: the request body is decoded without unwrapping
specRpcCodec_ReadRequestBody_noUnwrap(c, body) == dec_Decode(c, "any", body)
specRpcCodec_ReadRequestBody(c, body) == dec_Decode(c, "slice1", body)
responseHeader(r, h) ==
    [err |-> h.err, c |-> h.c,
     val |-> [r EXCEPT !.Seq = h.msgid, !.Error = h.methodOrError]]
\* mutant: a failed header read gives the caller's struct back as it was
requestHeader_keepOnError(r, h) ==
    [err |-> h.err, c |-> h.c,
     val |-> IF h.err # "nil" THEN r
             ELSE [r EXCEPT !.Seq = h.msgid, !.ServiceMethod = h.methodOrError]]
requestHeader(r, h) ==
    [err |-> h.err, c |-> h.c,
     val |-> [r EXCEPT !.Seq = h.msgid, !.ServiceMethod = h.methodOrError]]
specRpcCodec_ReadResponseHeader(c, r, short) ==
    responseHeader(r, parseCustomHeader(c, 1, r.Seq, r.Error, short))
specRpcCodec_ReadRequestHeader(c, r, short) ==
    requestHeader(r, parseCustomHeader(c, 0, r.Seq, r.ServiceMethod, short))

\* c.rwc.Close() on a stream closed calls times before: [err, calls]; the
\* stream returns nil the first time and an error after
rwc_Close(calls) ==
    [err |-> IF calls = 0 THEN "nil" ELSE "closed", calls |-> calls + 1]
\* mutant: a codec that remembers it is closed
Close_once(calls) ==
    IF calls > 0 THEN [err |-> "nil", calls |-> calls] ELSE rwc_Close(calls)
\* rpcCodec.Close(): the stream's Close, its result returned as it is
Close(calls) == rwc_Close(calls)

\* ------------------------------------------------------------------------
\* panicValToErr (helper of the package): the value of a recovered panic
\* becomes the error of the call.
\*   <<"error", msg, id>>   an error value; id tells two error values with
\*                          the same message apart, 0 is one made just now
\*   <<"string", s>>        a string
\*   <<"int", n>>, <<"bool", b>>, <<"nil">>   values of other types
\*   <<"none">>             no error (a nil error) / no panic
\* ------------------------------------------------------------------------
None == <<"none">>
Kind(v) == v[1]
\* the decimal digits of n
RECURSIVE Digits(_)
Digits(n) == IF n < 10 THEN <<48 + n>> ELSE Digits(n \div 10) \o <<48 + (n % 10)>>
\* fmt's "%v" of a value that is neither an error nor a string
FormatV(v) ==
    CASE Kind(v) = "int" -> Digits(v[2])
      [] Kind(v) = "bool" -> IF v[2] THEN <<116, 114, 117, 101>>
                             ELSE <<102, 97, 108, 115, 101>>
      [] OTHER -> <<60, 110, 105, 108, 62>>
errors_New(text) == <<"error", text, 0>>
fmt_Errorf(v) == <<"error", FormatV(v), 0>>
\* the type switch: what is stored in *err
panicValAsErr(panicVal) ==
    CASE Kind(panicVal) = "error" -> panicVal
      [] Kind(panicVal) = "string" -> errors_New(panicVal[2])
      [] OTHER -> fmt_Errorf(panicVal)
\* mutant: the panic is raised again before *err is set
panicValToErr_raiseFirst(panicVal, err, raise) ==
    IF raise THEN [err |-> err, raised |-> panicVal]
    ELSE [err |-> panicValAsErr(panicVal), raised |-> None]
\* panicValToErr(panicVal, err) with the flag raise: [err, raised], *err
\* after the call and the panic value the call ends with (None: it returns)
panicValToErr(panicVal, err, raise) ==
    [err |-> panicValAsErr(panicVal), raised |-> IF raise THEN panicVal ELSE None]

\* ------------------------------------------------------------------------
\* Inputs
\* ------------------------------------------------------------------------
\* Seq: 7 and 2^32 + 7
SeqVals == {Small(7), <<0, 0, 0, 1, 0, 0, 0, 7>>}
\* ServiceMethod / Error: "" and "A"
Strs == {<<>>, <<65>>}
\* bodies: nil, 0, [3], and a value that cannot be encoded
Bodies == {Nil, U(Small(0)), Arr(<<U(Small(3))>>), Bad}
Requests == [ServiceMethod : Strs, Seq : SeqVals, Error : {<<>>}]
Responses == [ServiceMethod : {<<77>>}, Seq : SeqVals, Error : Strs]
\* the inputs of SpecIO
IORequests == [ServiceMethod : {<<65>>}, Seq : {<<0, 0, 0, 1, 0, 0, 0, 7>>}, Error : {<<>>}]
IOResponses == [ServiceMethod : {<<77>>}, Seq : {Small(7)}, Error : {<<65>>}]
IOBodies == {U(Small(0)), Bad}
\* the inputs of SpecPar
ParResponses == [ServiceMethod : {<<77>>}, Seq : {Small(7)}, Error : Strs]
ParBodies == {U(Small(0)), Arr(<<U(Small(3))>>), Bad}
\* frames of a peer that does not follow the protocol: the type slot, the
\* sequence slot, the string slot holds a value of the wrong type
PeerFrames == {<<148, 161, 65>>, <<148, 0, 161, 65, 192>>, <<148, 1, 7, 7>>}
\* panic values: two error values with the same message and one with an
\* empty message, two strings, values of other types
PanicVals ==
    {<<"error", <<69>>, 1>>, <<"error", <<69>>, 2>>, <<"error", <<>>, 3>>,
     <<"string", <<>>>>, <<"string", <<69>>>>,
     <<"int", 0>>, <<"int", 42>>, <<"bool", TRUE>>, <<"nil">>}

\* ------------------------------------------------------------------------
\* State
\* ------------------------------------------------------------------------
VARIABLES
    proto,       \* "Spec" or "Basic": the codec constructed for the stream
    wire,        \* every byte put on the stream so far
    rpos,        \* number of bytes of wire consumed by reads
    up,          \* the stream is usable (not closed)
    closeCalls,  \* calls of the stream's Close
    closeErr,    \* what the last Close returned
    hdr,         \* the caller's rpc.Request / rpc.Response after the last header read
    body,        \* the caller's body target after the last body read
    sent,        \* history: the messages put on the stream
    wr,          \* history: the last write operation and its result
    hd,          \* history: the last header read and its result
    bd,          \* history: the last body read and its result
    pairs,       \* history: the header/body pairs a reader in step has read
    raisePanicAfterRecover,  \* the package's flag
    perr,        \* *err, the error panicValToErr stores into
    recov,       \* history: the last call of panicValToErr
    wbuf,        \* the bytes the write in progress has still to put on the stream
    rd           \* the header read in progress: where parseCustomHeader stands

codecVars == <<proto, wire, rpos, up, closeCalls, closeErr, hdr, body, sent, wr, hd, bd>>
recoverVars == <<raisePanicAfterRecover, perr, recov>>
\* the variables the codec operations do not touch
parVars == <<wbuf, rd>>
aside == <<pairs, recoverVars, parVars>>
vars == <<proto, wire, rpos, up, closeCalls, closeErr, hdr, body, sent, wr, hd, bd,
          aside>>

NoRead == [op |-> "none", at |-> 0, end |-> 0, err |-> "nil", in |-> ZeroHdr,
           short |-> FALSE, dec |-> 0]
NoBodyRead == [NoRead EXCEPT !.in = Nil]
NoWrite == [op |-> "none", err |-> "nil", enc |-> 0, start |-> 0, end |-> 0]
NoMsg == [op |-> "none", err |-> "nil", r |-> ZeroHdr, body |-> Nil, start |-> 0, end |-> 0]
NoCall == [pc |-> "idle", op |-> "none", at |-> 0, in |-> ZeroHdr, b |-> 0, dec |-> 0]
NoRecover == [val |-> None, before |-> None, raise |-> FALSE, raised |-> None]

\* the codec as the operations see it; the call counters start at 0
Codec == [wire |-> wire, rpos |-> rpos, up |-> up, enc |-> 0, dec |-> 0]

\* the codec after construction
InitCodec ==
    /\ wire = newRPCCodec.wire
    /\ rpos = newRPCCodec.rpos
    /\ up = newRPCCodec.up
    /\ closeCalls = 0
    /\ closeErr = "nil"
    /\ hdr = ZeroHdr
    /\ body = Nil
    /\ sent = <<>>
    /\ wr = NoWrite
    /\ hd = NoRead
    /\ bd = NoBodyRead
    /\ pairs = <<>>
    /\ perr = None
    /\ recov = NoRecover
    /\ wbuf = <<>>
    /\ rd = NoCall

Init ==
    /\ proto \in {"Spec", "Basic"}
    /\ InitCodec
    /\ raisePanicAfterRecover = FALSE

\* effect of a write operation op(r, b) with result res
Wrote(op, r, b, res) ==
    /\ Len(sent) < MaxMsgs
    /\ wire' = res.c.wire
    /\ wr' = [op |-> op, err |-> res.err, enc |-> res.c.enc,
              start |-> Len(wire), end |-> Len(res.c.wire)]
    /\ sent' = IF res.c.wire = wire THEN sent
               ELSE Append(sent, [op |-> op, err |-> res.err, r |-> r, body |-> b,
                                  start |-> Len(wire), end |-> Len(res.c.wire)])
    /\ UNCHANGED <<proto, rpos, up, closeCalls, closeErr, hdr, body, hd, bd, aside>>

\* A read of an open stream that needs more bytes than the stream holds
\* waits for them: the operation returns once the bytes are there.
\* mutant: a read that finds no byte returns at once
Returns_atOnce(res) == TRUE
Returns(res) == res.err # "eof"

\* effect of a header read op on the caller's struct r with result res
ReadHeader(op, r, short, res) ==
    /\ Returns(res)
    /\ rpos' = res.c.rpos
    /\ hdr' = res.val
    /\ hd' = [op |-> op, at |-> rpos, end |-> res.c.rpos, err |-> res.err,
              in |-> r, short |-> short, dec |-> res.c.dec]
    /\ UNCHANGED <<proto, wire, up, closeCalls, closeErr, body, sent, wr, bd, aside>>

\* effect of a body read op with result res
BodyRead(op, res) ==
    /\ Returns(res)
    /\ rpos' = res.c.rpos
    /\ body' = res.val
    /\ bd' = [op |-> op, at |-> rpos, end |-> res.c.rpos, err |-> res.err,
              in |-> body, short |-> FALSE, dec |-> res.c.dec]
    /\ UNCHANGED <<proto, wire, up, closeCalls, closeErr, hdr, sent, wr, hd>>
ReadBody(op, res) == BodyRead(op, res) /\ UNCHANGED aside

SpecWriteRequest(Rs, Bs) ==
    /\ proto = "Spec"
    /\ \E r \in Rs, b \in Bs :
         Wrote("WriteRequest", r, b, specRpcCodec_WriteRequest(Codec, r, b))

SpecWriteResponse(Rs, Bs) ==
    /\ proto = "Spec"
    /\ \E r \in Rs, b \in Bs :
         Wrote("WriteResponse", r, b, specRpcCodec_WriteResponse(Codec, r, b))

\* a stream that is open may return 0 bytes and no error
ShortReads == IF up THEN BOOLEAN ELSE {FALSE}

\* the caller passes the struct of the previous header read again
SpecReadRequestHeader ==
    /\ proto = "Spec"
    /\ \E short \in ShortReads :
         ReadHeader("ReadRequestHeader", hdr, short,
                    specRpcCodec_ReadRequestHeader(Codec, hdr, short))

SpecReadResponseHeader ==
    /\ proto = "Spec"
    /\ \E short \in ShortReads :
         ReadHeader("ReadResponseHeader", hdr, short,
                    specRpcCodec_ReadResponseHeader(Codec, hdr, short))

SpecReadRequestBody ==
    /\ proto = "Spec"
    /\ ReadBody("ReadRequestBody", specRpcCodec_ReadRequestBody(Codec, body))

GoWriteRequest(Rs, Bs) ==
    /\ proto = "Basic"
    /\ \E r \in Rs, b \in Bs :
         Wrote("WriteRequest", r, b, goRpcCodec_WriteRequest(Codec, r, b))

GoWriteResponse(Rs, Bs) ==
    /\ proto = "Basic"
    /\ \E r \in Rs, b \in Bs :
         Wrote("WriteResponse", r, b, goRpcCodec_WriteResponse(Codec, r, b))

GoReadRequestHeader ==
    /\ proto = "Basic"
    /\ ReadHeader("ReadRequestHeader", hdr, FALSE, goRpcCodec_ReadRequestHeader(Codec, hdr))

GoReadResponseHeader ==
    /\ proto = "Basic"
    /\ ReadHeader("ReadResponseHeader", hdr, FALSE, goRpcCodec_ReadResponseHeader(Codec, hdr))

GoReadRequestBody ==
    /\ proto = "Basic"
    /\ ReadBody("ReadRequestBody", goRpcCodec_ReadRequestBody(Codec, body))

\* ReadResponseBody is the embedded rpcCodec's, shared by both codecs
DoReadResponseBody ==
    ReadBody("ReadResponseBody", ReadResponseBody(Codec, body))

\* Close: a closed stream is no longer usable
DoClose ==
    /\ closeCalls < MaxClose
    /\ closeCalls' = Close(closeCalls).calls
    /\ up' = FALSE
    /\ closeErr' = Close(closeCalls).err
    /\ UNCHANGED <<proto, wire, rpos, hdr, body, sent, wr, hd, bd, aside>>

\* a peer puts a frame of its own on the Spec stream
PeerSend ==
    /\ proto = "Spec"
    /\ up
    /\ Len(sent) < MaxMsgs
    /\ \E f \in PeerFrames :
         /\ wire' = wire \o f
         /\ sent' = Append(sent, [NoMsg EXCEPT !.op = "Peer", !.start = Len(wire),
                                                 !.end = Len(wire) + Len(f)])
    /\ UNCHANGED <<proto, rpos, up, closeCalls, closeErr, hdr, body, wr, hd, bd, aside>>

\* Spec: the stream stays open; all inputs
Next ==
    \/ SpecWriteRequest(Requests, Bodies)
    \/ SpecWriteResponse(Responses, Bodies)
    \/ SpecReadRequestHeader
    \/ SpecReadResponseHeader
    \/ SpecReadRequestBody
    \/ GoWriteRequest(Requests, Bodies)
    \/ GoWriteResponse(Responses, Bodies)
    \/ GoReadRequestHeader
    \/ GoReadResponseHeader
    \/ GoReadRequestBody
    \/ DoReadResponseBody
    \/ PeerSend

Spec == Init /\ [][Next]_vars

\* SpecIO: the stream may be closed at any time, after which its reads and
\* writes fail; fewer inputs
NextIO ==
    \/ SpecWriteRequest(IORequests, IOBodies)
    \/ SpecWriteResponse(IOResponses, IOBodies)
    \/ SpecReadRequestHeader
    \/ SpecReadResponseHeader
    \/ SpecReadRequestBody
    \/ GoWriteRequest(IORequests, IOBodies)
    \/ GoWriteResponse(IOResponses, IOBodies)
    \/ GoReadRequestHeader
    \/ GoReadResponseHeader
    \/ GoReadRequestBody
    \/ DoReadResponseBody
    \/ PeerSend
    \/ DoClose

SpecIO == Init /\ [][NextIO]_vars

\* SpecSync: a Spec stream of whole messages and a reader in step: each
\* header read is followed by the body read of its kind and by no other
\* read; after a failed read the reader reads no more (spec.md section 7).
SyncBodies == Bodies \ {Bad}

\* the reader is between two messages
SyncAtMessage ==
    /\ hd.err = "nil" /\ bd.err = "nil"
    /\ hd.op = "none" \/ rpos = bd.end
\* the reader has read a header with op and not yet its body
SyncAtBody(op) == hd.op = op /\ hd.err = "nil" /\ rpos = hd.end

SyncReadRequestHeader ==
    /\ proto = "Spec"
    /\ SyncAtMessage
    /\ ReadHeader("ReadRequestHeader", hdr, FALSE,
                  specRpcCodec_ReadRequestHeader(Codec, hdr, FALSE))

SyncReadResponseHeader ==
    /\ proto = "Spec"
    /\ SyncAtMessage
    /\ ReadHeader("ReadResponseHeader", hdr, FALSE,
                  specRpcCodec_ReadResponseHeader(Codec, hdr, FALSE))

\* the pair is complete when its body read has returned
SyncPair(op) ==
    pairs' = Append(pairs, [op |-> op, hdr |-> hdr, body |-> body', err |-> bd'.err,
                            at |-> hd.at, end |-> rpos'])

SyncReadRequestBody ==
    /\ proto = "Spec"
    /\ SyncAtBody("ReadRequestHeader")
    /\ BodyRead("ReadRequestBody", specRpcCodec_ReadRequestBody(Codec, body))
    /\ SyncPair("ReadRequestHeader")
    /\ UNCHANGED <<recoverVars, parVars>>

SyncReadResponseBody ==
    /\ proto = "Spec"
    /\ SyncAtBody("ReadResponseHeader")
    /\ BodyRead("ReadResponseBody", ReadResponseBody(Codec, body))
    /\ SyncPair("ReadResponseHeader")
    /\ UNCHANGED <<recoverVars, parVars>>

NextSync ==
    \/ SpecWriteRequest(Requests, SyncBodies)
    \/ SpecWriteResponse(Responses, SyncBodies)
    \/ SyncReadRequestHeader
    \/ SyncReadResponseHeader
    \/ SyncReadRequestBody
    \/ SyncReadResponseBody

SpecSync == Init /\ [][NextSync]_vars

\* SpecPar: one writer and one reader on the same codec, each a process of
\* its own. A write operation builds its values and hands them to the
\* encoder, which puts the bytes on the stream one Write at a time; a Spec
\* header read is a raw read and three Decode calls, a Basic header read
\* and every body read one Decode call. The writer's and the reader's
\* steps interleave freely; writes do not overlap writes, reads do not
\* overlap reads (spec.md section 5).
WriteOp(op, c, r, b) ==
    CASE proto = "Spec" /\ op = "WriteRequest" -> specRpcCodec_WriteRequest(c, r, b)
      [] proto = "Spec" /\ op = "WriteResponse" -> specRpcCodec_WriteResponse(c, r, b)
      [] proto = "Basic" /\ op = "WriteRequest" -> goRpcCodec_WriteRequest(c, r, b)
      [] proto = "Basic" /\ op = "WriteResponse" -> goRpcCodec_WriteResponse(c, r, b)

\* the write operation is called: its bytes are ready for the stream
ParWriteCall(op, r, b, res) ==
    /\ wbuf = <<>>
    /\ Len(sent) < MaxMsgs
    /\ wbuf' = SubSeq(res.c.wire, Len(wire) + 1, Len(res.c.wire))
    /\ sent' = Append(sent, [op |-> op, err |-> res.err, r |-> r, body |-> b,
                             start |-> Len(wire), end |-> Len(res.c.wire)])
    /\ UNCHANGED <<proto, wire, rpos, up, closeCalls, closeErr, hdr, body, wr, hd, bd,
                   pairs, recoverVars, rd>>

ParWriteRequest ==
    \E r \in IORequests, b \in ParBodies :
      ParWriteCall("WriteRequest", r, b, WriteOp("WriteRequest", Codec, r, b))

ParWriteResponse ==
    \E r \in ParResponses, b \in ParBodies :
      ParWriteCall("WriteResponse", r, b, WriteOp("WriteResponse", Codec, r, b))

\* the encoder's next Write reaches the stream
ParWriteByte ==
    /\ wbuf # <<>>
    /\ wire' = Append(wire, Head(wbuf))
    /\ wbuf' = Tail(wbuf)
    /\ UNCHANGED <<proto, rpos, up, closeCalls, closeErr, hdr, body, sent, wr, hd, bd,
                   pairs, recoverVars, rd>>

\* parseCustomHeader, step by step
expectTypeByte(op) == IF op = "ReadRequestHeader" THEN 0 ELSE 1
\* the checks on the raw read
markerErr(raw) ==
    IF raw.err # "nil" THEN raw.err
    ELSE IF raw.n # 1 THEN "no bytes read"
    ELSE IF raw.b # fia THEN "unexpected array descriptor"
    ELSE "nil"
\* the header read returns err after dec Decode calls
ParHeaderReturns(op, at, in, err, dec) ==
    /\ hd' = [op |-> op, at |-> at, end |-> rpos', err |-> err, in |-> in,
              short |-> FALSE, dec |-> dec]
    /\ rd' = NoCall
\* c.rwc.Read(bs) and the checks on it
ParMarkerRead(op, raw) ==
    /\ Returns(raw)
    /\ rpos' = raw.c.rpos
    /\ IF markerErr(raw) # "nil"
       THEN ParHeaderReturns(op, rpos, hdr, markerErr(raw), 0)
       ELSE /\ rd' = [pc |-> "b", op |-> op, at |-> rpos, in |-> hdr, b |-> 0, dec |-> 0]
            /\ hd' = hd
    /\ UNCHANGED <<proto, wire, up, closeCalls, closeErr, hdr, body, sent, wr, bd,
                   pairs, recoverVars, wbuf>>

ParReadRequestHeader ==
    /\ proto = "Spec"
    /\ rd.pc = "idle"
    /\ SyncAtMessage
    /\ ParMarkerRead("ReadRequestHeader", rwc_Read(Codec, FALSE))

ParReadResponseHeader ==
    /\ proto = "Spec"
    /\ rd.pc = "idle"
    /\ SyncAtMessage
    /\ ParMarkerRead("ReadResponseHeader", rwc_Read(Codec, FALSE))

\* c.read(&b, msgid, methodOrError): the Decode call the loop is at
ParKind(pc) == IF pc = "b" THEN "uint8" ELSE IF pc = "msgid" THEN "uint64" ELSE "string"
ParTarget(pc, op) ==
    IF pc = "b" THEN Zero8
    ELSE IF pc = "msgid" THEN hdr.Seq
    ELSE IF op = "ReadRequestHeader" THEN hdr.ServiceMethod
    ELSE hdr.Error
ParStored(pc, op, val) ==
    IF pc = "b" THEN hdr
    ELSE IF pc = "msgid" THEN [hdr EXCEPT !.Seq = val]
    ELSE IF op = "ReadRequestHeader" THEN [hdr EXCEPT !.ServiceMethod = val]
    ELSE [hdr EXCEPT !.Error = val]
ParDecoded(d) ==
    /\ Returns(d)
    /\ rpos' = d.c.rpos
    /\ hdr' = ParStored(rd.pc, rd.op, d.val)
    /\ IF d.err # "nil"
       THEN ParHeaderReturns(rd.op, rd.at, rd.in, d.err, rd.dec + 1)
       ELSE IF rd.pc = "b"
       THEN rd' = [rd EXCEPT !.pc = "msgid", !.b = d.val[8], !.dec = @ + 1] /\ hd' = hd
       ELSE IF rd.pc = "msgid"
       THEN rd' = [rd EXCEPT !.pc = "moe", !.dec = @ + 1] /\ hd' = hd
       ELSE ParHeaderReturns(rd.op, rd.at, rd.in,
                             IF rd.b # expectTypeByte(rd.op)
                             THEN "unexpected byte descriptor" ELSE "nil",
                             rd.dec + 1)
    /\ UNCHANGED <<proto, wire, up, closeCalls, closeErr, body, sent, wr, bd,
                   pairs, recoverVars, wbuf>>

ParDecode ==
    /\ rd.pc # "idle"
    /\ ParDecoded(dec_Decode(Codec, ParKind(rd.pc), ParTarget(rd.pc, rd.op)))

\* the Basic header reads are one Decode call
ParGoReadRequestHeader == SyncAtMessage /\ GoReadRequestHeader
ParGoReadResponseHeader == SyncAtMessage /\ GoReadResponseHeader

\* the body reads are one Decode call
ParReadRequestBody ==
    /\ rd.pc = "idle"
    /\ SyncAtBody("ReadRequestHeader")
    /\ \/ SpecReadRequestBody
       \/ GoReadRequestBody

ParReadResponseBody ==
    /\ rd.pc = "idle"
    /\ SyncAtBody("ReadResponseHeader")
    /\ DoReadResponseBody

NextPar ==
    \/ ParWriteRequest
    \/ ParWriteResponse
    \/ ParWriteByte
    \/ ParReadRequestHeader
    \/ ParReadResponseHeader
    \/ ParDecode
    \/ ParGoReadRequestHeader
    \/ ParGoReadResponseHeader
    \/ ParReadRequestBody
    \/ ParReadResponseBody

SpecPar == Init /\ [][NextPar]_vars

\* SpecRecover: panicValToErr called with every panic value, with the flag
\* off (as the package sets it) or on (as a debugging build sets it)
InitRecover ==
    /\ proto = "Spec"
    /\ InitCodec
    /\ raisePanicAfterRecover \in BOOLEAN

Recover ==
    /\ \E v \in PanicVals :
         /\ perr' = panicValToErr(v, perr, raisePanicAfterRecover).err
         /\ recov' = [val |-> v, before |-> perr, raise |-> raisePanicAfterRecover,
                      raised |-> panicValToErr(v, perr, raisePanicAfterRecover).raised]
    /\ UNCHANGED <<codecVars, pairs, raisePanicAfterRecover, parVars>>

NextRecover == Recover

SpecRecover == InitRecover /\ [][NextRecover]_vars

\* ------------------------------------------------------------------------
\* Properties
\* ------------------------------------------------------------------------
Msgs == 1..Len(sent)
\* the low 32 bits of a 64-bit value, widened again
Low32(x) == [i \in 1..8 |-> IF i <= 4 THEN 0 ELSE x[i]]
Below2p32(x) == \A i \in 1..4 : x[i] = 0
\* message k was written whole by op
Written(k, op) == sent[k].op = op /\ sent[k].err = "nil"
\* the last header read was op, it started at the first byte of message k
\* and the stream delivered its bytes
HeaderOf(k, op) ==
    hd.op = op /\ hd.at = sent[k].start /\ ~hd.short /\ hd.err # "io"
\* the last body read was op and it directly followed the last header read
BodyAfterHeader(op) == bd.op = op /\ bd.at = hd.end /\ bd.err # "io"
\* what a response carries in its 3rd and 4th slot
ErrorSlot(r) == IF r.Error = <<>> THEN Nil ELSE Str(r.Error)
ResponseBodySlot(r, b) == IF r.Error = <<>> THEN b ELSE Nil
\* the value the decoder finds at position pos of the stream
ValueAt(pos) == Parse(wire, pos).val
EndOfValueAt(pos) == Parse(wire, pos).pos

\* C1: Spec protocol, request round trip: WriteRequest(r, b), then
\* ReadRequestHeader and ReadRequestBody on the same stream, yield
\* ServiceMethod = r.ServiceMethod, Seq = the low 32 bits of r.Seq, body = b.
C1_RequestRoundTrip ==
    proto = "Spec" =>
      \A k \in Msgs :
        (Written(k, "WriteRequest") /\ HeaderOf(k, "ReadRequestHeader")) =>
          /\ hd.err = "nil"
          /\ hdr.ServiceMethod = sent[k].r.ServiceMethod
          /\ hdr.Seq = Low32(sent[k].r.Seq)
          /\ BodyAfterHeader("ReadRequestBody") =>
               (bd.err = "nil" /\ body = sent[k].body /\ bd.end = sent[k].end)

C1_Witness ==
    /\ proto = "Spec"
    /\ \E k \in Msgs :
         /\ Written(k, "WriteRequest") /\ HeaderOf(k, "ReadRequestHeader")
         /\ BodyAfterHeader("ReadRequestBody")
         /\ ~Below2p32(sent[k].r.Seq)
         /\ sent[k].r.ServiceMethod # <<>>
         /\ sent[k].body # Nil

\* C2: Spec protocol, response round trip without error: WriteResponse(r, b)
\* with r.Error = "", then ReadResponseHeader and ReadResponseBody, yield
\* Error = "" and body = b.
C2_ResponseRoundTrip ==
    proto = "Spec" =>
      \A k \in Msgs :
        (/\ Written(k, "WriteResponse") /\ sent[k].r.Error = <<>>
         /\ HeaderOf(k, "ReadResponseHeader")) =>
          /\ hd.err = "nil"
          /\ hdr.Error = <<>>
          /\ BodyAfterHeader("ReadResponseBody") =>
               (bd.err = "nil" /\ body = sent[k].body /\ bd.end = sent[k].end)

C2_Witness ==
    /\ proto = "Spec"
    /\ \E k \in Msgs :
         /\ Written(k, "WriteResponse") /\ sent[k].r.Error = <<>>
         /\ HeaderOf(k, "ReadResponseHeader")
         /\ BodyAfterHeader("ReadResponseBody")
         /\ hd.in.Error # <<>>
         /\ sent[k].body # Nil

\* C3: response mutual exclusivity: WriteResponse with a non-empty Error
\* writes nil in the body slot whatever body was passed, the body decoded
\* after the round trip is nil, and no response envelope on the stream has
\* both a non-nil error slot and a non-nil body slot.
C3_ErrorExcludesBody ==
    proto = "Spec" =>
      \A k \in Msgs :
        sent[k].op = "WriteResponse" =>
          /\ sent[k].r.Error # <<>> =>
               /\ sent[k].err = "nil"
               /\ Parse(wire, sent[k].start).ok
               /\ Payload(ValueAt(sent[k].start))[4] = Nil
               /\ (HeaderOf(k, "ReadResponseHeader")
                   /\ BodyAfterHeader("ReadResponseBody")) =>
                     (bd.err = "nil" /\ body = Nil /\ hdr.Error = sent[k].r.Error)
          /\ Parse(wire, sent[k].start).ok =>
               ~(/\ Payload(ValueAt(sent[k].start))[3] # Nil
                 /\ Payload(ValueAt(sent[k].start))[4] # Nil)

C3_Witness ==
    /\ proto = "Spec"
    /\ \E k \in Msgs :
         /\ sent[k].op = "WriteResponse"
         /\ sent[k].r.Error # <<>>
         /\ sent[k].body = U(Small(0))
         /\ HeaderOf(k, "ReadResponseHeader")
         /\ BodyAfterHeader("ReadResponseBody")
         /\ bd.in # Nil

\* C4: framing rejection: a Spec header read whose first byte is not the
\* 4-element array marker returns a framing error, calls the decoder not
\* once and leaves the caller's fields as they were.
C4_FramingRejection ==
    (/\ proto = "Spec"
     /\ hd.op \in {"ReadRequestHeader", "ReadResponseHeader"}
     /\ ~hd.short /\ hd.err # "io"
     /\ wire[hd.at + 1] # 148) =>
      /\ hd.err = "unexpected array descriptor"
      /\ hd.dec = 0
      /\ hdr = hd.in
      /\ hd.end = hd.at + 1

C4_Witness ==
    /\ proto = "Spec"
    /\ hd.op \in {"ReadRequestHeader", "ReadResponseHeader"}
    /\ ~hd.short /\ hd.err # "io"
    /\ wire[hd.at + 1] # 148
    /\ hd.in.Seq # Zero8
    /\ hd.in.ServiceMethod # <<>>

\* the discriminator a header read expects
Expected(op) == IF op = "ReadRequestHeader" THEN 0 ELSE 1
\* the discriminator the decoder finds after the marker of the last header read
Discriminator == Conv("uint8", ValueAt(hd.at + 1), Zero8).val[8]

\* C5: discriminator mismatch: ReadRequestHeader on a message written by
\* WriteResponse, and ReadResponseHeader on a message written by
\* WriteRequest, return a framing error; a header read returns nil only
\* when the decoded discriminator is the expected one.
C5_DiscriminatorMismatch ==
    proto = "Spec" =>
      /\ \A k \in Msgs :
           \/ (sent[k].op = "WriteResponse" /\ HeaderOf(k, "ReadRequestHeader"))
           \/ (sent[k].op = "WriteRequest" /\ HeaderOf(k, "ReadResponseHeader"))
           => hd.err = "unexpected byte descriptor"
      /\ (hd.op \in {"ReadRequestHeader", "ReadResponseHeader"} /\ hd.err = "nil")
           => Discriminator = Expected(hd.op)

C5_Witness ==
    /\ proto = "Spec"
    /\ \E k \in Msgs :
         /\ sent[k].op = "WriteResponse" /\ HeaderOf(k, "ReadRequestHeader")
         /\ sent[k].r.Error # <<>>
    /\ hd.err # "nil"

\* C6: a successful Spec header read consumes the marker byte and the
\* first three slots and nothing more: the read position is then at the
\* first byte of the 4th slot, and the body read that follows decodes
\* that message's body and ends at the message's end.
C6_HeaderLeavesBody ==
    (/\ proto = "Spec"
     /\ hd.op \in {"ReadRequestHeader", "ReadResponseHeader"}
     /\ hd.err = "nil") =>
      /\ wire[hd.at + 1] = 148
      /\ hd.dec = 3
      /\ hd.end = EndOfValueAt(EndOfValueAt(EndOfValueAt(hd.at + 1)))
      /\ \A k \in Msgs :
           (sent[k].err = "nil" /\ sent[k].op # "Peer" /\ hd.at = sent[k].start) =>
             /\ hd.end = sent[k].start + 2
                           + Len(EncUint(Low32(sent[k].r.Seq)))
                           + Len(Enc(IF sent[k].op = "WriteRequest"
                                     THEN Str(sent[k].r.ServiceMethod)
                                     ELSE ErrorSlot(sent[k].r)).out)
             /\ EndOfValueAt(hd.end) = sent[k].end
             /\ ValueAt(hd.end) = IF sent[k].op = "WriteRequest"
                                  THEN Arr(<<sent[k].body>>)
                                  ELSE ResponseBodySlot(sent[k].r, sent[k].body)
             /\ (bd.at = hd.end /\ bd.op = "ReadResponseBody") =>
                  (bd.end = sent[k].end /\ body = ValueAt(hd.end))
             /\ (bd.at = hd.end /\ bd.op = "ReadRequestBody"
                 /\ sent[k].op = "WriteRequest") =>
                  (bd.end = sent[k].end /\ body = sent[k].body)

C6_Witness ==
    /\ proto = "Spec"
    /\ hd.op = "ReadResponseHeader"
    /\ hd.err = "nil"
    /\ \E k \in Msgs :
         /\ sent[k].err = "nil" /\ sent[k].op = "WriteResponse"
         /\ hd.at = sent[k].start
         /\ k > 1
         /\ sent[k].body # Nil
         /\ sent[k].r.Error = <<>>
    /\ bd.at = hd.end
    /\ bd.op = "ReadResponseBody"

\* the three header slots of the last Spec header read: where each starts,
\* and whether the decoder can store it in its target
SlotStart(i) ==
    IF i = 1 THEN hd.at + 1
    ELSE IF i = 2 THEN EndOfValueAt(hd.at + 1)
    ELSE EndOfValueAt(EndOfValueAt(hd.at + 1))
SlotKind(i) == <<"uint8", "uint64", "string">>[i]
SlotOk(i) ==
    /\ Parse(wire, SlotStart(i)).ok
    /\ Conv(SlotKind(i), ValueAt(SlotStart(i)), Zero8).ok

\* C7: write encodes its values in argument order and stops at the first
\* one that fails; read decodes into its targets in argument order and
\* stops at the first one that fails, the later targets untouched; each
\* returns nil only if every value succeeded.
C7_FirstFailureStops ==
    /\ (proto = "Basic" /\ wr.op # "none") =>
         /\ wr.enc \in {1, 2}
         /\ wr.err = "nil" => wr.enc = 2
         /\ (wr.err # "nil" /\ wr.end = wr.start) => wr.enc = 1
         /\ \A k \in Msgs :
              (sent[k].start = wr.start /\ sent[k].end = wr.end) =>
                /\ ValueAt(wr.start) =
                     IF wr.op = "WriteRequest" THEN RequestValue(sent[k].r)
                     ELSE ResponseValue(sent[k].r)
                /\ wr.err = "nil" =>
                     /\ ValueAt(EndOfValueAt(wr.start)) = sent[k].body
                     /\ EndOfValueAt(EndOfValueAt(wr.start)) = wr.end
                /\ wr.err # "nil" =>
                     /\ wr.enc = 2
                     /\ sent[k].body = Bad
                     /\ EndOfValueAt(wr.start) = wr.end
    /\ (/\ proto = "Spec"
        /\ hd.op \in {"ReadRequestHeader", "ReadResponseHeader"}
        /\ hd.dec > 0 /\ hd.err # "io") =>
         /\ hd.dec = 1 <=> ~SlotOk(1)
         /\ hd.dec = 2 <=> (SlotOk(1) /\ ~SlotOk(2))
         /\ hd.dec = 3 <=> (SlotOk(1) /\ SlotOk(2))
         /\ hd.err \in {"nil", "unexpected byte descriptor"}
              <=> (SlotOk(1) /\ SlotOk(2) /\ SlotOk(3))
         /\ hd.dec = 1 => hdr = hd.in
         /\ hd.dec = 2 =>
              /\ hdr.Seq = Conv("uint64", ValueAt(SlotStart(2)), hd.in.Seq).val
              /\ hdr.ServiceMethod = hd.in.ServiceMethod
              /\ hdr.Error = hd.in.Error
         /\ (hd.dec = 3 /\ SlotOk(3)) =>
              /\ hdr.Seq = Conv("uint64", ValueAt(SlotStart(2)), Zero8).val
              /\ Conv("string", ValueAt(SlotStart(3)), <<>>).val =
                   IF hd.op = "ReadRequestHeader" THEN hdr.ServiceMethod
                   ELSE hdr.Error

C7_Witness ==
    /\ proto = "Spec"
    /\ hd.op \in {"ReadRequestHeader", "ReadResponseHeader"}
    /\ hd.err = "decode"
    /\ hd.dec = 2
    /\ hd.in.Seq # Zero8
    /\ hd.in.ServiceMethod # <<>>

\* messages the Spec codec wrote (whole or cut short by a body it cannot encode)
CodecWrote(k) == sent[k].op \in {"WriteRequest", "WriteResponse"}
\* the sequence slot of message k as it is on the stream
SeqSlot(k) == ValueAt(sent[k].start + 2)
MatchingHeader(k) ==
    \/ (sent[k].op = "WriteRequest" /\ HeaderOf(k, "ReadRequestHeader"))
    \/ (sent[k].op = "WriteResponse" /\ HeaderOf(k, "ReadResponseHeader"))

\* C8: sequence-number width: WriteRequest and WriteResponse put
\* Seq mod 2^32 in the sequence slot, the header read returns that value
\* widened to 64 bits; the Seq read back equals the Seq written iff the
\* written Seq is below 2^32, and two messages whose Seq differ by a
\* multiple of 2^32 carry, and are read back with, the same Seq.
C8_SeqTruncated ==
    proto = "Spec" =>
      /\ \A k \in Msgs :
           CodecWrote(k) =>
             /\ SeqSlot(k) = U(Low32(sent[k].r.Seq))
             /\ MatchingHeader(k) =>
                  /\ hd.err = "nil"
                  /\ hdr.Seq = Low32(sent[k].r.Seq)
                  /\ hdr.Seq = sent[k].r.Seq <=> Below2p32(sent[k].r.Seq)
      /\ \A j, k \in Msgs :
           (/\ CodecWrote(j) /\ CodecWrote(k)
            /\ Low32(sent[j].r.Seq) = Low32(sent[k].r.Seq)) =>
             SeqSlot(j) = SeqSlot(k)

C8_Witness ==
    /\ proto = "Spec"
    /\ \E j, k \in Msgs :
         /\ CodecWrote(j) /\ CodecWrote(k)
         /\ sent[j].r.Seq # sent[k].r.Seq
         /\ Low32(sent[j].r.Seq) = Low32(sent[k].r.Seq)
         /\ ~Below2p32(sent[k].r.Seq)
         /\ MatchingHeader(k)
         /\ hdr.Seq # sent[k].r.Seq

\* C9: every message the Spec codec writes is one 4-element array
\* [discriminator, sequence, methodOrError, body], discriminator 0 for
\* WriteRequest and 1 for WriteResponse; a request's 4th slot is a
\* 1-element array wrapping the body (also a nil body), a response's 4th
\* slot is the body itself, not wrapped (nil when the response has an error).
C9_EnvelopeShape ==
    proto = "Spec" =>
      \A k \in Msgs :
        (CodecWrote(k) /\ sent[k].err = "nil") =>
          /\ wire[sent[k].start + 1] = 148
          /\ Parse(wire, sent[k].start).ok
          /\ EndOfValueAt(sent[k].start) = sent[k].end
          /\ ValueAt(sent[k].start) =
               IF sent[k].op = "WriteRequest"
               THEN Arr(<<U(Small(0)), U(Low32(sent[k].r.Seq)),
                          Str(sent[k].r.ServiceMethod), Arr(<<sent[k].body>>)>>)
               ELSE Arr(<<U(Small(1)), U(Low32(sent[k].r.Seq)),
                          ErrorSlot(sent[k].r),
                          ResponseBodySlot(sent[k].r, sent[k].body)>>)

C9_Witness ==
    /\ proto = "Spec"
    /\ \E j, k \in Msgs :
         /\ Written(j, "WriteRequest") /\ sent[j].body = Nil
         /\ Written(k, "WriteResponse") /\ sent[k].body = U(Small(0))
         /\ sent[k].r.Error = <<>>

\* C10: Basic protocol: WriteRequest and WriteResponse put exactly two
\* values on the stream, the envelope then the body, with no framing byte;
\* a header read consumes exactly one value and a body read exactly one
\* value, so that write, header read, body read return the envelope with
\* its full 64-bit Seq and the body unchanged.
C10_BasicTwoValues ==
    proto = "Basic" =>
      \A k \in Msgs :
        sent[k].err = "nil" =>
          /\ wire[sent[k].start + 1] # 148
          /\ ValueAt(sent[k].start) =
               IF sent[k].op = "WriteRequest" THEN RequestValue(sent[k].r)
               ELSE ResponseValue(sent[k].r)
          /\ ValueAt(EndOfValueAt(sent[k].start)) = sent[k].body
          /\ EndOfValueAt(EndOfValueAt(sent[k].start)) = sent[k].end
          /\ MatchingHeader(k) =>
               /\ hd.err = "nil"
               /\ hd.dec = 1
               /\ hd.end = EndOfValueAt(sent[k].start)
               /\ hdr.Seq = sent[k].r.Seq
               /\ hdr.ServiceMethod = sent[k].r.ServiceMethod
               /\ sent[k].op = "WriteResponse" => hdr.Error = sent[k].r.Error
               /\ (bd.op \in {"ReadRequestBody", "ReadResponseBody"}
                   /\ bd.at = hd.end) =>
                    /\ bd.err = "nil"
                    /\ bd.dec = 1
                    /\ bd.end = sent[k].end
                    /\ body = sent[k].body

C10_Witness ==
    /\ proto = "Basic"
    /\ \E k \in Msgs :
         /\ sent[k].err = "nil"
         /\ k > 1
         /\ MatchingHeader(k)
         /\ ~Below2p32(sent[k].r.Seq)
         /\ bd.op = "ReadResponseBody"
         /\ bd.at = hd.end
         /\ sent[k].body # Nil
         /\ sent[k].r.Error # <<>>

\* the 3rd and 4th slot of message k as they are on the stream
ThirdSlot(k) == ValueAt(EndOfValueAt(EndOfValueAt(sent[k].start + 1)))
FourthSlot(k) == ValueAt(EndOfValueAt(EndOfValueAt(EndOfValueAt(sent[k].start + 1))))

\* C12: empty-error normalisation applies to responses only: WriteResponse
\* with Error = "" writes nil in the 3rd slot, never the empty string;
\* WriteRequest always writes ServiceMethod as a string in the 3rd slot,
\* also when it is empty, and never writes nil in a request's body slot.
C12_ResponsesOnly ==
    proto = "Spec" =>
      \A k \in Msgs :
        /\ sent[k].op = "WriteResponse" =>
             /\ sent[k].r.Error = <<>> => ThirdSlot(k) = Nil
             /\ ThirdSlot(k) # Str(<<>>)
        /\ sent[k].op = "WriteRequest" =>
             /\ ThirdSlot(k) = Str(sent[k].r.ServiceMethod)
             /\ sent[k].err = "nil" =>
                  (FourthSlot(k) # Nil /\ FourthSlot(k) = Arr(<<sent[k].body>>))

C12_Witness ==
    /\ proto = "Spec"
    /\ \E j, k \in Msgs :
         /\ Written(j, "WriteRequest")
         /\ sent[j].r.ServiceMethod = <<>> /\ sent[j].body = Nil
         /\ Written(k, "WriteResponse")
         /\ sent[k].r.Error = <<>> /\ sent[k].body = Nil

\* C13: in every response envelope written by WriteResponse exactly one of
\* the error slot and the body slot is nil, for every Error string and
\* every body (Error = "" with a nil body included): never both nil, never
\* both non-nil.
C13_ExactlyOneNil ==
    proto = "Spec" =>
      \A k \in Msgs :
        Written(k, "WriteResponse") =>
          (ThirdSlot(k) = Nil) # (FourthSlot(k) = Nil)

\* WriteResponse with Error = "" and a nil body has written nil in both slots
C13_BothNil ==
    /\ proto = "Spec"
    /\ \E k \in Msgs :
         /\ Written(k, "WriteResponse")
         /\ sent[k].r.Error = <<>> /\ sent[k].body = Nil
         /\ ThirdSlot(k) = Nil /\ FourthSlot(k) = Nil

\* the header read that matches the operation that wrote a message
HeaderFor(op) == IF op = "WriteRequest" THEN "ReadRequestHeader" ELSE "ReadResponseHeader"
\* the message the reader in step is at: the one after the pairs read
SyncIndex == Len(pairs) + 1

\* C14: the stream stays in sync over any number of messages: when
\* messages are written one after another and the reader does, for each, a
\* header read directly followed by the matching body read, the i-th pair
\* read is the i-th message written (FIFO) and after every body read the
\* read position is at the next message's array-marker byte.
C14_StaysInSync ==
    /\ \A i \in 1..Len(pairs) :
         /\ i <= Len(sent)
         /\ pairs[i].op = HeaderFor(sent[i].op)
         /\ pairs[i].err = "nil"
         /\ pairs[i].at = sent[i].start
         /\ pairs[i].end = sent[i].end
         /\ pairs[i].hdr.Seq = Low32(sent[i].r.Seq)
         /\ sent[i].op = "WriteRequest" =>
              /\ pairs[i].hdr.ServiceMethod = sent[i].r.ServiceMethod
              /\ pairs[i].body = sent[i].body
         /\ sent[i].op = "WriteResponse" =>
              /\ pairs[i].hdr.Error = sent[i].r.Error
              /\ pairs[i].body = ResponseBodySlot(sent[i].r, sent[i].body)
         /\ i < Len(sent) =>
              (sent[i + 1].start = pairs[i].end /\ wire[pairs[i].end + 1] = 148)
    /\ (hd.op # "none" /\ rpos = hd.end) =>
         /\ SyncIndex <= Len(sent)
         /\ hd.at = sent[SyncIndex].start
         /\ hd.op = HeaderFor(sent[SyncIndex].op) => hd.err = "nil"
    /\ (hd.op # "none" /\ rpos # hd.end) => rpos = sent[Len(pairs)].end

C14_Witness ==
    /\ Len(pairs) = MaxMsgs
    /\ pairs[1].op # pairs[2].op
    /\ sent[1].r.Seq # sent[2].r.Seq
    /\ pairs[1].body # pairs[2].body
    /\ pairs[2].body # Nil
    /\ rpos = Len(wire)

\* a step in which a write, a header read, a body read, a Close returned
WriteReturned == wr' # wr
HeaderReturned == hd' # hd
BodyReturned == bd' # bd
CloseReturned == closeCalls' # closeCalls
SpecHeaderOps == {"ReadRequestHeader", "ReadResponseHeader"}
\* what the raw one-byte read of a header read finds, from the state before
RawRead(short) == rwc_Read(Codec, short)
\* the result of one Decode into a target of type kind, from the state before
DecodeErr(kind, old) ==
    IF ~up THEN "io"
    ELSE IF ~Parse(wire, rpos).ok THEN "decode"
    ELSE IF ~Conv(kind, ValueAt(rpos), old).ok THEN "decode"
    ELSE "nil"
BodyKind(op) == IF proto = "Spec" /\ op = "ReadRequestBody" THEN "slice1" ELSE "any"
HeaderKind(op) == IF op = "ReadRequestHeader" THEN "request" ELSE "response"

\* the body value a written message hands to the encoder
EncodedBody(m) ==
    IF proto = "Spec" /\ m.op = "WriteResponse" THEN ResponseBodySlot(m.r, m.body)
    ELSE m.body

C15_Step ==
    /\ WriteReturned =>
         /\ ~up => (wr'.err = "io" /\ wr'.enc = 1 /\ wire' = wire)
         /\ up =>
              /\ Len(sent') = Len(sent) + 1
              /\ wr'.err = sent'[Len(sent')].err
              /\ wr'.err = IF EncodedBody(sent'[Len(sent')]) = Bad THEN "encode" ELSE "nil"
    /\ (HeaderReturned /\ proto = "Spec") =>
         /\ RawRead(hd'.short).err # "nil" =>
              /\ hd'.err = RawRead(hd'.short).err
              /\ hd'.dec = 0 /\ hdr' = hdr /\ rpos' = rpos
         /\ (RawRead(hd'.short).err = "nil" /\ RawRead(hd'.short).n = 0) =>
              /\ hd'.err = "no bytes read"
              /\ hd'.dec = 0 /\ hdr' = hdr /\ rpos' = rpos
         /\ hd'.err = "nil" =>
              /\ RawRead(hd'.short).err = "nil" /\ RawRead(hd'.short).n = 1
              /\ SlotOk(1)' /\ SlotOk(2)' /\ SlotOk(3)'
         /\ hd'.dec > 0 =>
              (hd'.err \in {"nil", "unexpected byte descriptor"}
                 <=> (SlotOk(1)' /\ SlotOk(2)' /\ SlotOk(3)'))
    /\ (HeaderReturned /\ proto = "Basic") =>
         /\ hd'.err = DecodeErr(HeaderKind(hd'.op), hdr)
         /\ hd'.dec = 1
    /\ BodyReturned =>
         /\ bd'.err = DecodeErr(BodyKind(bd'.op), body)
         /\ bd'.dec = 1
    /\ CloseReturned => closeErr' = IF closeCalls = 0 THEN "nil" ELSE "closed"

\* C15: no codec operation swallows a failure: every operation returns a
\* non-nil error when a stream read, an encode or a decode it performed
\* failed, and returns the first such failure; a Spec header read whose
\* raw one-byte read returns an error returns that error, one whose raw
\* read returns zero bytes and no error returns a framing error, both
\* without a call of the decoder.
C15_NoFailureSwallowed == [][C15_Step]_vars

C15_Witness ==
    /\ proto = "Spec"
    /\ hd.op \in SpecHeaderOps
    /\ hd.err = "io" /\ hd.dec = 0
    /\ hd.in.Seq # Zero8
    /\ wr.err = "io"
    /\ bd.err = "decode"

\* the string field a header read fills
StringField(op, h) == IF op = "ReadRequestHeader" THEN h.ServiceMethod ELSE h.Error
\* the string a written message carries in its 3rd slot
StringSlot(m) == IF m.op = "WriteRequest" THEN m.r.ServiceMethod ELSE m.r.Error

\* C16: a failed Spec header read leaves the caller's fields unchanged
\* only when it fails before decoding: with a valid marker and a decoded
\* discriminator other than the expected one, the header read returns an
\* error after Seq and ServiceMethod/Error have been overwritten with the
\* values decoded from the mismatching message, and the marker byte and
\* the three slots stay consumed.
C16_MismatchOverwrites ==
    (proto = "Spec" /\ hd.op \in SpecHeaderOps) =>
      /\ (hd.err # "nil" /\ hd.dec = 0) => hdr = hd.in
      /\ hd.err = "unexpected byte descriptor" =>
           /\ wire[hd.at + 1] = 148
           /\ hd.dec = 3
           /\ Discriminator # Expected(hd.op)
           /\ hdr.Seq = Conv("uint64", ValueAt(SlotStart(2)), hd.in.Seq).val
           /\ StringField(hd.op, hdr)
                = Conv("string", ValueAt(SlotStart(3)), StringField(hd.op, hd.in)).val
           /\ hd.end = EndOfValueAt(SlotStart(3))
           /\ rpos >= hd.end
      /\ \A k \in Msgs :
           (/\ CodecWrote(k) /\ hd.at = sent[k].start
            /\ hd.op # HeaderFor(sent[k].op) /\ ~hd.short) =>
             /\ hd.err = "unexpected byte descriptor"
             /\ hdr.Seq = Low32(sent[k].r.Seq)
             /\ StringField(hd.op, hdr) = StringSlot(sent[k])
             /\ hd.end = sent[k].start + 2 + Len(EncUint(Low32(sent[k].r.Seq)))
                           + 1 + (IF sent[k].op = "WriteResponse" /\ StringSlot(sent[k]) = <<>>
                                  THEN 0 ELSE Len(StringSlot(sent[k])))

C16_Witness ==
    /\ proto = "Spec"
    /\ hd.op = "ReadRequestHeader"
    /\ hd.err = "unexpected byte descriptor"
    /\ \E k \in Msgs :
         /\ sent[k].op = "WriteResponse" /\ hd.at = sent[k].start
         /\ sent[k].r.Error # <<>>
    /\ hdr.Seq # hd.in.Seq
    /\ hdr.ServiceMethod # hd.in.ServiceMethod
    /\ rpos = hd.end

\* a call of Close that invokes the stream's Close once, returns what the
\* stream returned and leaves the stream's bytes, the read position and
\* the caller's values alone
CloseOnce ==
    /\ DoClose
    /\ closeCalls' = closeCalls + 1
    /\ closeErr' = IF closeCalls = 0 THEN "nil" ELSE "closed"
    /\ wire' = wire /\ rpos' = rpos
    /\ hdr' = hdr /\ body' = body
    /\ sent' = sent /\ wr' = wr /\ hd' = hd /\ bd' = bd

C17_Step ==
    CloseReturned =>
      /\ closeCalls' = closeCalls + 1
      /\ closeErr' = IF closeCalls = 0 THEN "nil" ELSE "closed"
      /\ wire' = wire /\ rpos' = rpos
      /\ hdr' = hdr /\ body' = body
      /\ sent' = sent /\ wr' = wr /\ hd' = hd /\ bd' = bd

\* C17: Close may be called in any codec state; each call invokes the
\* stream's Close exactly once and returns its result unchanged, writes
\* nothing and reads nothing; the codec keeps no closed flag, so a second
\* Close invokes the stream's Close a second time.
C17_CloseAnyTime ==
    /\ [](closeCalls < MaxClose => ENABLED CloseOnce)
    /\ [][C17_Step]_vars

C17_Witness ==
    /\ closeCalls = 2
    /\ closeErr = "closed"
    /\ hd.op \in SpecHeaderOps /\ hd.err = "nil" /\ rpos = hd.end
    /\ bd.op = "none"
    /\ wr.err = "io"
    /\ rpos < Len(wire)

\* the message of an error value
Message(e) == e[2]
\* the text "%v" gives for the panic values that are neither errors nor strings
TextOf(v) ==
    CASE v = <<"int", 0>> -> <<48>>
      [] v = <<"int", 42>> -> <<52, 50>>
      [] v = <<"bool", TRUE>> -> <<116, 114, 117, 101>>
      [] v = <<"nil">> -> <<60, 110, 105, 108, 62>>

\* C18: panicValToErr stores a non-nil error in *err for every panic value
\* before anything else: an error value as that same error, a string as an
\* error with that message, any other value as an error holding its
\* formatted text; it then raises the panic value again if and only if
\* raisePanicAfterRecover is true, and returns otherwise.
C18_PanicBecomesError ==
    recov.val # None =>
      /\ perr # None
      /\ Kind(perr) = "error"
      /\ Kind(recov.val) = "error" => perr = recov.val
      /\ Kind(recov.val) = "string" => Message(perr) = recov.val[2]
      /\ Kind(recov.val) \notin {"error", "string"} => Message(perr) = TextOf(recov.val)
      /\ recov.raise = raisePanicAfterRecover
      /\ raisePanicAfterRecover => recov.raised = recov.val
      /\ ~raisePanicAfterRecover => recov.raised = None

C18_Witness ==
    /\ raisePanicAfterRecover
    /\ recov.val = <<"int", 42>>
    /\ recov.before = <<"error", <<69>>, 2>>
    /\ recov.raised = <<"int", 42>>
    /\ Message(perr) = <<52, 50>>

\* the operations run one at a time, on the stream as it is now
HeaderOp(op, c, r) ==
    CASE proto = "Spec" /\ op = "ReadRequestHeader" -> specRpcCodec_ReadRequestHeader(c, r, FALSE)
      [] proto = "Spec" /\ op = "ReadResponseHeader" -> specRpcCodec_ReadResponseHeader(c, r, FALSE)
      [] proto = "Basic" /\ op = "ReadRequestHeader" -> goRpcCodec_ReadRequestHeader(c, r)
      [] proto = "Basic" /\ op = "ReadResponseHeader" -> goRpcCodec_ReadResponseHeader(c, r)
BodyOp(op, c, b) ==
    CASE proto = "Spec" /\ op = "ReadRequestBody" -> specRpcCodec_ReadRequestBody(c, b)
      [] proto = "Basic" /\ op = "ReadRequestBody" -> goRpcCodec_ReadRequestBody(c, b)
      [] op = "ReadResponseBody" -> ReadResponseBody(c, b)
\* a codec whose stream holds the first n bytes, none of them read
CodecBefore(n) == [Codec EXCEPT !.wire = SubSeq(wire, 1, n), !.rpos = 0]
\* the codec with the read position at pos
CodecAt(pos) == [Codec EXCEPT !.rpos = pos]
\* the bytes of the messages up to the k-th, those still to be put included
WireUpTo(k) ==
    IF k = Len(sent) THEN wire \o wbuf ELSE SubSeq(wire, 1, sent[k].end)
SameHeader(h) ==
    h.err = hd.err /\ h.val = hdr /\ h.c.rpos = hd.end /\ h.c.dec = hd.dec
SameBody(d) == d.err = bd.err /\ d.val = body /\ d.c.rpos = bd.end
SameWrite(k, w) == w.err = sent[k].err /\ w.c.wire = WireUpTo(k)

====
